---------------------------- MODULE Spec2Model ----------------------------
(***************************************************************************)
(* Image Optimizer API (src/image_optimizer_api/main.py).                  *)
(*                                                                         *)
(* One request at a time travels through the FastAPI application: the      *)
(* framework binds the query parameters, then the handler runs its blocks  *)
(* in program order.  Each try/except block of a handler is one step.      *)
(*                                                                         *)
(* Text is a sequence of one-character strings, so that upper(), lower()   *)
(* and f-string formatting are computed.  An Optional value is a sequence  *)
(* of length 0 (None) or 1.  Python floats are IEEE-754 doubles, computed  *)
(* here limb by limb.                                                      *)
(***************************************************************************)
EXTENDS Integers, Sequences, FiniteSets, TLC

VARIABLES endpoint, request, pc, target_format, width, height, img,
          resized_img, original_format, output_stream, response, trace,
          saveCall, resizeCall

vars == <<endpoint, request, pc, target_format, width, height, img,
          resized_img, original_format, output_stream, response, trace,
          saveCall, resizeCall>>

----------------------------------------------------------------------------
(* Optional values                                                         *)

None == <<>>

Some(x) == <<x>>

----------------------------------------------------------------------------
(* Text                                                                    *)

LowerChars ==
  <<"a","b","c","d","e","f","g","h","i","j","k","l","m",
    "n","o","p","q","r","s","t","u","v","w","x","y","z">>

UpperChars ==
  <<"A","B","C","D","E","F","G","H","I","J","K","L","M",
    "N","O","P","Q","R","S","T","U","V","W","X","Y","Z">>

UpperChar(c) ==
  IF \E i \in 1..Len(LowerChars) : LowerChars[i] = c
    THEN UpperChars[CHOOSE i \in 1..Len(LowerChars) : LowerChars[i] = c]
    ELSE c

LowerChar(c) ==
  IF \E i \in 1..Len(UpperChars) : UpperChars[i] = c
    THEN LowerChars[CHOOSE i \in 1..Len(UpperChars) : UpperChars[i] = c]
    ELSE c

\* str.upper()
Upper(s) == [i \in 1..Len(s) |-> UpperChar(s[i])]

\* str.lower()
Lower(s) == [i \in 1..Len(s) |-> LowerChar(s[i])]

DigitChars == <<"0","1","2","3","4","5","6","7","8","9">>

RECURSIVE NatToStr(_)
NatToStr(n) ==
  IF n < 10 THEN <<DigitChars[n + 1]>>
  ELSE NatToStr(n \div 10) \o <<DigitChars[(n % 10) + 1]>>

\* the f-string rendering of an int
IntToStr(n) == IF n < 0 THEN <<"-">> \o NatToStr(0 - n) ELSE NatToStr(n)

WEBP == <<"W","E","B","P">>
JPEG == <<"J","P","E","G">>
PNG  == <<"P","N","G">>
BMP  == <<"B","M","P">>
GIF  == <<"G","I","F">>

ImagePrefix == <<"i","m","a","g","e","/">>
OptimizedPrefix == <<"o","p","t","i","m","i","z","e","d",".">>
ResizedPrefix == <<"r","e","s","i","z","e","d","_">>
ApplicationJson ==
  <<"a","p","p","l","i","c","a","t","i","o","n","/","j","s","o","n">>

----------------------------------------------------------------------------
(* IEEE-754 double arithmetic on positive operands.  A double is           *)
(* [m |-> limbs, k |-> scale]: the 53-bit integer written in base 2^13 as  *)
(* the limbs <<1, d1, d2, d3, d4>> (most significant first), times 2^(-k). *)

LimbBits == 13

FracLimbs == 4

MantissaBits == 1 + FracLimbs * LimbBits

RECURSIVE Pow2(_)
Pow2(n) == IF n = 0 THEN 1 ELSE 2 * Pow2(n - 1)

Base == Pow2(LimbBits)

\* number of bits of n >= 0
RECURSIVE BitLen(_)
BitLen(n) == IF n = 0 THEN 0 ELSE 1 + BitLen(n \div 2)

\* the integer a sequence of limbs denotes
RECURSIVE LimbsToNat(_)
LimbsToNat(ls) ==
  IF ls = <<>> THEN 0
  ELSE Base * LimbsToNat(SubSeq(ls, 1, Len(ls) - 1)) + ls[Len(ls)]

\* round to nearest, ties to even: m is the kept limbs, above/tie describe
\* the discarded part against half a unit in the last place
RoundLimbs(m, k, above, tie) ==
  IF above \/ (tie /\ m[Len(m)] % 2 = 1)
    THEN IF \E i \in 2..Len(m) : m[i] < Base - 1
           THEN LET j == CHOOSE i \in 2..Len(m) :
                           /\ m[i] < Base - 1
                           /\ \A l \in (i + 1)..Len(m) : m[l] = Base - 1
                IN [m |-> [i \in 1..Len(m) |->
                             IF i < j THEN m[i]
                             ELSE IF i = j THEN m[i] + 1 ELSE 0],
                    k |-> k]
           ELSE [m |-> [i \in 1..Len(m) |-> IF i = 1 THEN 1 ELSE 0],
                 k |-> k - 1]
    ELSE [m |-> m, k |-> k]

\* one step of long division in base 2^13
DivStep(r, b) == [d |-> (r * Base) \div b, r |-> (r * Base) % b]

\* a / b for ints a, b >= 1: the correctly rounded quotient
FloatDiv(a, b) ==
  LET s  == IF a >= b THEN 0 ELSE BitLen((b - 1) \div a)
      t  == IF a >= b THEN BitLen(a \div b) - 1 ELSE 0
      a2 == a * Pow2(s)
      b2 == b * Pow2(t)
      q1 == DivStep(a2 - b2, b2)
      q2 == DivStep(q1.r, b2)
      q3 == DivStep(q2.r, b2)
      q4 == DivStep(q3.r, b2)
  IN RoundLimbs(<<1, q1.d, q2.d, q3.d, q4.d>>, MantissaBits - 1 + s - t,
                2 * q4.r > b2, 2 * q4.r = b2)

\* x * c for a double x and an int c >= 1 (exactly representable)
FloatMul(x, c) ==
  LET t5 == x.m[5] * c
      t4 == x.m[4] * c + t5 \div Base
      t3 == x.m[3] * c + t4 \div Base
      t2 == x.m[2] * c + t3 \div Base
      t1 == x.m[1] * c + t2 \div Base
      p  == <<t1, t2 % Base, t3 % Base, t4 % Base, t5 % Base>>
      d  == BitLen(t1) - 1
      D  == Pow2(d)
      U  == Base \div D
      n  == [i \in 1..5 |-> IF i = 1 THEN p[1] \div D
                            ELSE (p[i - 1] % D) * U + p[i] \div D]
      dropped == p[5] % D
  IN IF d = 0 THEN [m |-> p, k |-> x.k]
     ELSE RoundLimbs(n, x.k - d, 2 * dropped > D, 2 * dropped = D)

\* int(x) for a positive double x
FloatTrunc(x) ==
  IF x.k >= MantissaBits THEN 0
  ELSE IF x.k < 0 THEN LimbsToNat(x.m) * Pow2(0 - x.k)
  ELSE LET j == x.k \div LimbBits
           r == x.k % LimbBits
       IN LimbsToNat(SubSeq(x.m, 1, FracLimbs - j)) * Pow2(LimbBits - r)
            + x.m[FracLimbs + 1 - j] \div Pow2(r)

----------------------------------------------------------------------------
(* Requests                                                                *)

MinFormatLen == 3
MaxFormatLen == 4
MinQuality == 1
MaxQuality == 100
DefaultQuality == 85

\* largest width or height a modelled client asks for
MaxReqDim == 4

TargetFormats ==
  { <<"w","e","b","p">>, <<"W","e","b","P">>, <<"j","p","e","g">>,
    <<"J","P","E","G">>, <<"p","n","g">>, <<"P","n","G">>, <<"b","m","p">>,
    <<"j","p","g">>, <<"g","i","f">>, <<"t","i","f","f">>,
    <<"j","p">>, <<"w","e","b","p","2">>, <<>> }

QualityValues ==
  {MinQuality - 1, MinQuality, DefaultQuality, MaxQuality, MaxQuality + 1}

OptionalDims == {None} \cup {Some(n) : n \in (0 - 1)..MaxReqDim}

ImageSizes == { <<100, 33>>, <<49, 49>>, <<200, 100>> }

\* what the decoding library reports for an upload: format (empty when it
\* reports none) and pixel mode
ImageKinds ==
  { <<JPEG, "RGB">>, <<JPEG, "CMYK">>, <<PNG, "RGB">>, <<PNG, "RGBA">>,
    <<PNG, "P">>,
    <<GIF, "P">>, <<WEBP, "RGBA">>, <<BMP, "RGB">>, <<None, "RGB">> }

NoImage(kind) ==
  [kind |-> kind, format |-> None, mode |-> "", size |-> <<0, 0>>]

\* the uploaded bytes: empty, not an image, an image cut inside its header,
\* an image whose header is whole and whose pixel data is cut, a whole image
Uploads ==
  { NoImage("empty"), NoImage("not_image"), NoImage("truncated_header") }
  \cup
  { [kind |-> k, format |-> ik[1], mode |-> ik[2], size |-> sz] :
      k \in {"truncated_data", "image"}, ik \in ImageKinds, sz \in ImageSizes }

NoRequest ==
  [target_format |-> <<>>, quality |-> DefaultQuality, width |-> None,
   height |-> None, file |-> NoImage("empty")]

----------------------------------------------------------------------------
(* The image library, as the handlers use it                               *)

\* variant: bytes that are no image are taken for one
OpenRaises_Lenient(file) == file.kind \in {"empty", "truncated_header"}

\* Image.open() reads the header only: it raises unless a whole header of a
\* known encoding is there
OpenRaises(file) == file.kind \in {"empty", "not_image", "truncated_header"}

\* the handle Image.open() returns; the pixel data is loaded on first use
Open(file) ==
  [format |-> file.format, mode |-> file.mode, size |-> file.size,
   loadable |-> file.kind = "image"]

\* the pixel modes each encoder writes
SaveAccepts(format, mode) ==
  CASE format = JPEG -> mode \in {"L", "RGB", "CMYK"}
    [] format = PNG  -> mode \in {"L", "P", "RGB", "RGBA"}
    [] format = BMP  -> mode \in {"L", "P", "RGB", "RGBA"}
    [] format = WEBP -> TRUE
    [] format = GIF  -> TRUE
    [] OTHER -> FALSE

\* Image.save() loads the pixel data, then encodes
SaveRaises(image, format) ==
  ~image.loadable \/ ~SaveAccepts(format, image.mode)

\* Image.resize() needs a size of two positive ints and loads the pixel data
ResizeRaises(image, size) ==
  \/ size[1] = None
  \/ size[2] = None
  \/ size[1][1] < 1
  \/ size[2][1] < 1
  \/ ~image.loadable

----------------------------------------------------------------------------
(* The handlers' pure parts                                                *)

\* variant: GIF let through the allow-list
SupportedFormats_WithGif == {WEBP, JPEG, PNG, BMP, GIF}

SupportedFormats == {WEBP, JPEG, PNG, BMP}

\* variant: WEBP forgotten among the lossy formats
LossyFormats_JpegOnly == {JPEG}

LossyFormats == {JPEG, WEBP}

\* the Query constraints the framework enforces before the handler runs
BindingOK(ep, req) ==
  /\ req.quality >= MinQuality
  /\ req.quality <= MaxQuality
  /\ ep = "convert" =>
       /\ Len(req.target_format) >= MinFormatLen
       /\ Len(req.target_format) <= MaxFormatLen

\* variant: the presence check never rejects
MissingDimensions_Never(w, h) == FALSE

\* resize_image: neither dimension was given
MissingDimensions(w, h) == w = None /\ h = None

\* the quality keyword of the save call, None when it is not passed
SaveQuality(format, quality) ==
  IF format \in LossyFormats THEN Some(quality) ELSE None

\* int((given / orig_given) * orig_other), in double arithmetic; int()
\* truncates toward zero
ScaledDimension(given, orig_given, orig_other) ==
  IF given = 0 THEN 0
  ELSE IF given > 0
    THEN FloatTrunc(FloatMul(FloatDiv(given, orig_given), orig_other))
    ELSE 0 - FloatTrunc(FloatMul(FloatDiv(0 - given, orig_given), orig_other))

\* variant: the fallback format is PNG
OriginalFormat_PngFallback(image) ==
  IF image.format # <<>> THEN image.format ELSE PNG

OriginalFormat(image) == IF image.format # <<>> THEN image.format ELSE JPEG

\* variant: the content type keeps the upper-case format name
MediaType_NoLower(format) == ImagePrefix \o format

MediaType(format) == ImagePrefix \o Lower(format)

ConvertFilename(format) == OptimizedPrefix \o Lower(format)

\* variant: the filename is built from the request's parameters, an omitted
\* one rendered as None
ResizeFilename_Requested(w, h, format) ==
  LET Shown(d) == IF d = None THEN <<"N","o","n","e">> ELSE IntToStr(d[1])
  IN ResizedPrefix \o Shown(request.width) \o <<"x">>
       \o Shown(request.height) \o <<".">> \o Lower(format)

ResizeFilename(w, h, format) ==
  ResizedPrefix \o IntToStr(w) \o <<"x">> \o IntToStr(h) \o <<".">>
    \o Lower(format)

\* HTTPException(status_code, detail), rendered by the framework
Error(status, kind) ==
  [status |-> status, kind |-> kind, media_type |-> ApplicationJson,
   filename |-> None, body |-> None]

\* StreamingResponse(output_stream, media_type, Content-Disposition)
Streaming(body, media_type, filename) ==
  [status |-> 200, kind |-> "ok", media_type |-> media_type,
   filename |-> Some(filename), body |-> Some(body)]

----------------------------------------------------------------------------
(* The application                                                         *)

Init ==
  /\ endpoint = "none"
  /\ request = NoRequest
  /\ pc = "idle"
  /\ target_format = <<>>
  /\ width = None
  /\ height = None
  /\ img = None
  /\ resized_img = None
  /\ original_format = None
  /\ output_stream = None
  /\ response = None
  /\ trace = <<>>
  /\ saveCall = None
  /\ resizeCall = None

\* a request starts with nothing of the previous one left
Fresh(ep, req) ==
  /\ endpoint' = ep
  /\ request' = req
  /\ target_format' = req.target_format
  /\ width' = req.width
  /\ height' = req.height
  /\ img' = None
  /\ resized_img' = None
  /\ original_format' = None
  /\ output_stream' = None
  /\ saveCall' = None
  /\ resizeCall' = None

\* GET /
read_root ==
  /\ pc = "idle"
  /\ Fresh("root", NoRequest)
  /\ trace' = <<"respond">>
  /\ response' = Some([status |-> 200, kind |-> "root",
                       media_type |-> ApplicationJson, filename |-> None,
                       body |-> None])
  /\ pc' = "done"

\* POST /api/v1/convert arrives
ReceiveConvert ==
  /\ pc = "idle"
  /\ \E tf \in TargetFormats, q \in QualityValues, f \in Uploads :
       Fresh("convert", [target_format |-> tf, quality |-> q,
                         width |-> None, height |-> None, file |-> f])
  /\ trace' = <<>>
  /\ response' = None
  /\ pc' = "bind"

\* POST /api/v1/resize arrives
ReceiveResize ==
  /\ pc = "idle"
  /\ \E w \in OptionalDims, h \in OptionalDims, q \in QualityValues,
        f \in Uploads :
       Fresh("resize", [target_format |-> <<>>, quality |-> q,
                        width |-> w, height |-> h, file |-> f])
  /\ trace' = <<>>
  /\ response' = None
  /\ pc' = "bind"

\* the framework validates the declared parameters; a violation is answered
\* with 422 and the handler is not called
Bind ==
  /\ pc = "bind"
  /\ trace' = Append(trace, "bind")
  /\ IF BindingOK(endpoint, request)
       THEN pc' = "validate" /\ UNCHANGED response
       ELSE pc' = "done" /\ response' = Some(Error(422, "binding"))
  /\ UNCHANGED <<endpoint, request, target_format, width, height, img,
                 resized_img, original_format, output_stream, saveCall,
                 resizeCall>>

\* convert_image, 1. Simple Format Validation
ConvertValidate ==
  /\ pc = "validate" /\ endpoint = "convert"
  /\ trace' = Append(trace, "validate")
  /\ target_format' = Upper(target_format)
  /\ IF target_format' \notin SupportedFormats
       THEN pc' = "done" /\ response' = Some(Error(400, "unsupported_format"))
       ELSE pc' = "decode" /\ UNCHANGED response
  /\ UNCHANGED <<endpoint, request, width, height, img, resized_img,
                 original_format, output_stream, saveCall, resizeCall>>

\* variant: the decode failure is recorded and the handler goes on
ConvertDecode_NoRaise ==
  /\ pc = "decode" /\ endpoint = "convert"
  /\ trace' = Append(trace, "decode")
  /\ IF OpenRaises(request.file)
       THEN response' = Some([status |-> 400, kind |-> "decode",
                              media_type |-> ApplicationJson,
                              filename |-> None, body |-> None])
       ELSE UNCHANGED response
  /\ pc' = "encode"
  /\ img' = Some([format |-> request.file.format, mode |-> request.file.mode,
                  size |-> request.file.size,
                  loadable |-> request.file.kind = "image"])
  /\ UNCHANGED <<endpoint, request, target_format, width, height,
                 resized_img, original_format, output_stream, saveCall,
                 resizeCall>>

\* convert_image, 2. Reading the File In-Memory
ConvertDecode ==
  /\ pc = "decode" /\ endpoint = "convert"
  /\ trace' = Append(trace, "decode")
  /\ IF OpenRaises(request.file)
       THEN pc' = "done" /\ response' = Some(Error(400, "decode"))
            /\ UNCHANGED img
       ELSE pc' = "encode" /\ img' = Some(Open(request.file))
            /\ UNCHANGED response
  /\ UNCHANGED <<endpoint, request, target_format, width, height,
                 resized_img, original_format, output_stream, saveCall,
                 resizeCall>>

\* convert_image, 3. Processing and Optimization
ConvertEncode ==
  /\ pc = "encode" /\ endpoint = "convert"
  /\ trace' = Append(trace, "encode")
  /\ saveCall' = Some([format |-> target_format,
                       quality |-> SaveQuality(target_format,
                                               request.quality)])
  /\ IF SaveRaises(img[1], target_format)
       THEN pc' = "done" /\ response' = Some(Error(500, "save"))
            /\ UNCHANGED output_stream
       ELSE pc' = "respond" /\ UNCHANGED response
            /\ output_stream' =
                 Some([format |-> target_format, mode |-> img[1].mode,
                       size |-> img[1].size,
                       quality |-> saveCall'[1].quality])
  /\ UNCHANGED <<endpoint, request, target_format, width, height, img,
                 resized_img, original_format, resizeCall>>

\* convert_image, 4. Returning the Optimized Image
ConvertRespond ==
  /\ pc = "respond" /\ endpoint = "convert"
  /\ trace' = Append(trace, "respond")
  /\ response' = Some(Streaming(output_stream[1], MediaType(target_format),
                                ConvertFilename(target_format)))
  /\ pc' = "done"
  /\ UNCHANGED <<endpoint, request, target_format, width, height, img,
                 resized_img, original_format, output_stream, saveCall,
                 resizeCall>>

\* resize_image, 1. Parameter Validation
ResizeValidate ==
  /\ pc = "validate" /\ endpoint = "resize"
  /\ trace' = Append(trace, "validate")
  /\ IF MissingDimensions(width, height)
       THEN pc' = "done" /\ response' = Some(Error(400, "missing_dimension"))
       ELSE pc' = "decode" /\ UNCHANGED response
  /\ UNCHANGED <<endpoint, request, target_format, width, height, img,
                 resized_img, original_format, output_stream, saveCall,
                 resizeCall>>

\* resize_image, 2. Reading the File In-Memory
ResizeDecode ==
  /\ pc = "decode" /\ endpoint = "resize"
  /\ trace' = Append(trace, "decode")
  /\ IF OpenRaises(request.file)
       THEN pc' = "done" /\ response' = Some(Error(400, "decode"))
            /\ UNCHANGED img
       ELSE pc' = "transform" /\ img' = Some(Open(request.file))
            /\ UNCHANGED response
  /\ UNCHANGED <<endpoint, request, target_format, width, height,
                 resized_img, original_format, output_stream, saveCall,
                 resizeCall>>

\* resize_image, 3. Aspect Ratio Calculation and 4. Resizing with Pillow
ResizeTransform ==
  /\ pc = "transform" /\ endpoint = "resize"
  /\ trace' = Append(trace, "transform")
  /\ LET original_width  == img[1].size[1]
         original_height == img[1].size[2]
     IN /\ height' =
             IF width # None /\ height = None
               THEN Some(ScaledDimension(width[1], original_width,
                                         original_height))
               ELSE height
        /\ width' =
             IF height # None /\ width = None
               THEN Some(ScaledDimension(height[1], original_height,
                                         original_width))
               ELSE width
  /\ resizeCall' = Some(<<width', height'>>)
  /\ IF ResizeRaises(img[1], <<width', height'>>)
       THEN pc' = "done" /\ response' = Some(Error(500, "resize"))
            /\ UNCHANGED resized_img
       ELSE pc' = "encode" /\ UNCHANGED response
            /\ resized_img' =
                 Some([format |-> None, mode |-> img[1].mode,
                       size |-> <<width'[1], height'[1]>>,
                       loadable |-> TRUE])
  /\ UNCHANGED <<endpoint, request, target_format, img, original_format,
                 output_stream, saveCall>>

\* resize_image, 5. Optimization and Return: the save
ResizeEncode ==
  /\ pc = "encode" /\ endpoint = "resize"
  /\ trace' = Append(trace, "encode")
  /\ original_format' = Some(OriginalFormat(img[1]))
  /\ saveCall' = Some([format |-> original_format'[1],
                       quality |-> SaveQuality(original_format'[1],
                                               request.quality)])
  /\ IF SaveRaises(resized_img[1], original_format'[1])
       THEN pc' = "done" /\ response' = Some(Error(500, "save"))
            /\ UNCHANGED output_stream
       ELSE pc' = "respond" /\ UNCHANGED response
            /\ output_stream' =
                 Some([format |-> original_format'[1],
                       mode |-> resized_img[1].mode,
                       size |-> resized_img[1].size,
                       quality |-> saveCall'[1].quality])
  /\ UNCHANGED <<endpoint, request, target_format, width, height, img,
                 resized_img, resizeCall>>

\* resize_image, Returning the Optimized Image
ResizeRespond ==
  /\ pc = "respond" /\ endpoint = "resize"
  /\ trace' = Append(trace, "respond")
  /\ response' = Some(Streaming(output_stream[1],
                                MediaType(original_format[1]),
                                ResizeFilename(width[1], height[1],
                                               original_format[1])))
  /\ pc' = "done"
  /\ UNCHANGED <<endpoint, request, target_format, width, height, img,
                 resized_img, original_format, output_stream, saveCall,
                 resizeCall>>

\* the response is sent and the request's objects are dropped: nothing of a
\* request outlives it
Release ==
  /\ pc = "done"
  /\ pc' = "idle"
  /\ Fresh("none", NoRequest)
  /\ trace' = <<>>
  /\ response' = None

Next ==
  \/ read_root
  \/ ReceiveConvert
  \/ ReceiveResize
  \/ Bind
  \/ ConvertValidate
  \/ ConvertDecode
  \/ ConvertEncode
  \/ ConvertRespond
  \/ ResizeValidate
  \/ ResizeDecode
  \/ ResizeTransform
  \/ ResizeEncode
  \/ ResizeRespond
  \/ Release

Spec == Init /\ [][Next]_vars

----------------------------------------------------------------------------
(* Properties                                                              *)

Done == pc = "done"

Status == response[1].status

\* the request's parameters satisfy the declared Query constraints
QualityInRange == request.quality \in 1..100

FormatLengthInRange == Len(request.target_format) \in 3..4

\* target_format, compared case-insensitively, is one of webp, jpeg, png, bmp
RequestedSupported ==
  Lower(request.target_format) \in
    { <<"w","e","b","p">>, <<"j","p","e","g">>, <<"p","n","g">>,
      <<"b","m","p">> }

\* C1 as stated: every convert request whose target_format is not one of
\* webp, jpeg, png, bmp (case-insensitive) is answered 400, whatever the
\* upload and whatever the length of target_format (here with quality in
\* its declared range, so that only the length is in question).
C1_AnyLength400 ==
  (Done /\ endpoint = "convert" /\ ~RequestedSupported /\ QualityInRange)
    => Status = 400

\* C1 amended: such a request is answered 400 when target_format has 3 or 4
\* characters and quality lies in 1..100, whatever the upload; otherwise the
\* parameter binding answers 422 before the format check.
C1_UnsupportedFormat ==
  (Done /\ endpoint = "convert" /\ ~RequestedSupported) =>
     /\ Status = (IF FormatLengthInRange /\ QualityInRange THEN 400 ELSE 422)
     /\ img = None

C1_Witness ==
  /\ Done /\ endpoint = "convert" /\ ~RequestedSupported
  /\ request.target_format = <<"g","i","f">>
  /\ request.file.kind = "image"
  /\ Status = 400

\* C2 as stated: every resize request with width and height both omitted is
\* answered 400, and the upload is neither read nor decoded before that.
C2_BothOmitted400 ==
  (Done /\ endpoint = "resize" /\ request.width = None
        /\ request.height = None) =>
     /\ Status = 400
     /\ \A i \in 1..Len(trace) : trace[i] # "decode"

\* C2 amended: such a request is answered 400 when quality lies in 1..100
\* and 422 by the parameter binding otherwise; in both cases the upload is
\* neither read nor decoded.
C2_MissingDimensions ==
  (Done /\ endpoint = "resize" /\ request.width = None
        /\ request.height = None) =>
     /\ Status = (IF QualityInRange THEN 400 ELSE 422)
     /\ \A i \in 1..Len(trace) : trace[i] # "decode"
     /\ img = None

C2_Witness ==
  /\ Done /\ endpoint = "resize"
  /\ request.width = None /\ request.height = None
  /\ request.file.kind = "image"
  /\ Status = 400 /\ response[1].kind = "missing_dimension"

\* C3 as stated: a convert or resize request whose upload is not an image
\* is answered 400, for every combination of the other parameters.
C3_NotImage400 ==
  (Done /\ endpoint \in {"convert", "resize"}
        /\ request.file.kind = "not_image") => Status = 400

\* C3 amended: such a request is never answered 500: it is answered
\* 400 when the parameters satisfy their declared constraints (quality in
\* 1..100, target_format of 3 or 4 characters) and 422 otherwise.
C3_NotImage ==
  (Done /\ endpoint \in {"convert", "resize"}
        /\ request.file.kind = "not_image") =>
     Status = (IF /\ QualityInRange
                  /\ endpoint = "convert" => FormatLengthInRange
                 THEN 400 ELSE 422)

C3_Witness ==
  /\ Done /\ endpoint = "resize" /\ request.file.kind = "not_image"
  /\ request.width # None
  /\ Status = 400 /\ response[1].kind = "decode"

\* the parameters are valid: declared constraints met, the format supported,
\* a dimension given and every given dimension positive
ValidParameters ==
  /\ QualityInRange
  /\ endpoint = "convert" => RequestedSupported
  /\ endpoint = "resize" =>
       /\ request.width # None \/ request.height # None
       /\ request.width # None => request.width[1] >= 1
       /\ request.height # None => request.height[1] >= 1

\* C4: with valid parameters, an upload that is empty, truncated or
\* otherwise unreadable ends the request with the decode error, status 400;
\* no later stage reports it as 500.
C4_UnreadableIsDecodeError ==
  (Done /\ endpoint \in {"convert", "resize"} /\ ValidParameters
        /\ request.file.kind # "image") =>
     (Status = 400 /\ response[1].kind = "decode")

\* C5: when only width = w >= 1 is given the final height is
\* floor(w * H0 / W0); when only height = h >= 1 is given the final width is
\* floor(h * W0 / H0).
C5_ExactFloor ==
  (resizeCall # None) =>
     LET W0 == request.file.size[1]
         H0 == request.file.size[2]
     IN /\ (request.width # None /\ request.height = None
              /\ request.width[1] >= 1) =>
             height = Some((request.width[1] * H0) \div W0)
        /\ (request.height # None /\ request.width = None
              /\ request.height[1] >= 1) =>
             width = Some((request.height[1] * W0) \div H0)

\* text ends with suffix
EndsWith(text, suffix) ==
  /\ Len(text) >= Len(suffix)
  /\ SubSeq(text, Len(text) - Len(suffix) + 1, Len(text)) = suffix

\* C6: a successful resize response is named resized_<w>x<h>.<fmt> with
\* (w, h) the size passed to the resampling call: the request's value for a
\* dimension that was given, the computed value for one that was omitted.
C6_FilenameHasFinalSize ==
  (Done /\ endpoint = "resize" /\ Status = 200) =>
     /\ resizeCall # None
     /\ LET w == resizeCall[1][1][1]
            h == resizeCall[1][2][1]
        IN /\ response[1].filename =
                Some(<<"r","e","s","i","z","e","d","_">> \o IntToStr(w)
                       \o <<"x">> \o IntToStr(h) \o <<".">>
                       \o Lower(response[1].body[1].format))
           /\ response[1].body[1].size = <<w, h>>
           /\ request.width # None => w = request.width[1]
           /\ request.height # None => h = request.height[1]
           /\ request.width = None =>
                w = ScaledDimension(h, request.file.size[2],
                                    request.file.size[1])
           /\ request.height = None =>
                h = ScaledDimension(w, request.file.size[1],
                                    request.file.size[2])

C6_Witness ==
  /\ Done /\ endpoint = "resize" /\ Status = 200
  /\ request.width = Some(4) /\ request.height = None
  /\ request.file.size = <<100, 33>>
  /\ resizeCall = Some(<<Some(4), Some(1)>>)
  /\ EndsWith(response[1].filename[1], <<"_","4","x","1",".","p","n","g">>)

\* what a successful convert response must be for the requested format
ConvertedTo(F) ==
  /\ Status = 200
  /\ response[1].body[1].format = F
  /\ response[1].media_type = <<"i","m","a","g","e","/">> \o Lower(F)
  /\ response[1].filename =
       Some(<<"o","p","t","i","m","i","z","e","d",".">> \o Lower(F))

\* C7 as stated: converting any whole, decodable image, of any source
\* format and pixel mode, to a supported format F with quality in 1..100
\* succeeds with 200, output format F, Content-Type image/<f> and filename
\* optimized.<f>.
C7_AnyModeConverts ==
  (Done /\ endpoint = "convert" /\ RequestedSupported /\ QualityInRange
        /\ request.file.kind = "image") =>
     ConvertedTo(Upper(request.target_format))

\* the encoder of F does not write the pixel mode
ModeRejected(F, mode) ==
  \/ F = JPEG /\ mode \in {"RGBA", "P"}
  \/ F \in {PNG, BMP} /\ mode = "CMYK"

\* C7 amended: the conversion succeeds as stated when the encoder of F
\* writes the image's pixel mode; when it does not (RGBA or P to JPEG, CMYK
\* to PNG or BMP) the request ends with the encode failure, status 500.
C7_WritableModeConverts ==
  (Done /\ endpoint = "convert" /\ RequestedSupported /\ QualityInRange
        /\ request.file.kind = "image") =>
     IF ModeRejected(Upper(request.target_format), request.file.mode)
       THEN Status = 500 /\ response[1].kind = "save"
       ELSE ConvertedTo(Upper(request.target_format))

C7_Witness ==
  /\ Done /\ endpoint = "convert" /\ Status = 200
  /\ request.target_format = <<"j","p","e","g">>
  /\ request.file.format = PNG /\ request.file.mode = "RGB"
  /\ request.file.size = <<200, 100>>
  /\ request.quality = 1
  /\ response[1].body[1].format = JPEG
  /\ response[1].media_type = <<"i","m","a","g","e","/","j","p","e","g">>

\* C8: on a successful resize response the output format, the Content-Type
\* and the filename extension all name the detected source format, or JPEG
\* when none was detected.
C8_ResizeKeepsSourceFormat ==
  (Done /\ endpoint = "resize" /\ Status = 200) =>
     LET F == IF request.file.format # None THEN request.file.format
              ELSE JPEG
     IN /\ response[1].body[1].format = F
        /\ response[1].media_type = <<"i","m","a","g","e","/">> \o Lower(F)
        /\ EndsWith(response[1].filename[1], <<".">> \o Lower(F))

C8_Witness ==
  /\ Done /\ endpoint = "resize" /\ Status = 200
  /\ request.file.format = None
  /\ response[1].body[1].format = JPEG
  /\ response[1].media_type = <<"i","m","a","g","e","/","j","p","e","g">>

\* C9: on both endpoints the save call carries the request's quality if and
\* only if the output format is JPEG or WEBP; otherwise it carries none, and
\* the encoded output does not depend on quality.
C9_QualityOnlyForLossy ==
  (saveCall # None) =>
     /\ IF saveCall[1].format \in {JPEG, WEBP}
          THEN saveCall[1].quality = Some(request.quality)
          ELSE saveCall[1].quality = None
     /\ output_stream # None =>
          /\ output_stream[1].format = saveCall[1].format
          /\ output_stream[1].quality = saveCall[1].quality

C9_Witness ==
  /\ Done /\ endpoint = "convert" /\ Status = 200
  /\ saveCall # None
  /\ saveCall[1].format = PNG /\ saveCall[1].quality = None
  /\ request.quality = 100
  /\ response[1].body[1].quality = None

StageRank(s) ==
  CASE s = "bind" -> 0
    [] s = "validate" -> 1
    [] s = "decode" -> 2
    [] s = "transform" -> 3
    [] s = "encode" -> 4
    [] s = "respond" -> 5

\* the stage whose failure an error response reports
FailedStage(kind) ==
  CASE kind = "binding" -> "bind"
    [] kind \in {"unsupported_format", "missing_dimension"} -> "validate"
    [] kind = "decode" -> "decode"
    [] kind = "resize" -> "transform"
    [] kind = "save" -> "encode"

\* stages run in order, each at most once; a response exists exactly when
\* the request has ended; an error response is the error of the last stage
\* run; a success response follows the response builder
StagesSequential(statusOf(_)) ==
  /\ \A i \in 1..Len(trace), j \in 1..Len(trace) :
        i < j => StageRank(trace[i]) < StageRank(trace[j])
  /\ (response # None) <=> Done
  /\ (Done /\ endpoint \in {"convert", "resize"}) =>
       /\ trace # <<>>
       /\ IF response[1].kind = "ok"
            THEN /\ Status = 200
                 /\ trace[Len(trace)] = "respond"
                 /\ \A s \in {"bind", "validate", "decode", "encode"} :
                       \E i \in 1..Len(trace) : trace[i] = s
            ELSE /\ trace[Len(trace)] = FailedStage(response[1].kind)
                 /\ Status = statusOf(trace[Len(trace)])

\* C10 as stated: the stages run in order, each at most once, no stage runs
\* after a failure, and the request ends with one response: 200, or the
\* error of the failed stage, 400 for validation or decode and 500 for
\* resize or encode.
C10_Validation400 ==
  StagesSequential(LAMBDA s : IF s \in {"bind", "validate", "decode"}
                                THEN 400 ELSE 500)

\* C10 amended: as stated, except that a validation failure at the
\* parameter binding (quality outside 1..100, target_format not of 3 or 4
\* characters) is answered 422; the handler's own validation and the decode
\* answer 400, resize and encode 500.
C10_StagesSequential ==
  StagesSequential(LAMBDA s : IF s = "bind" THEN 422
                              ELSE IF s \in {"validate", "decode"} THEN 400
                              ELSE 500)

C10_Witness ==
  /\ Done /\ endpoint = "resize" /\ Status = 500
  /\ response[1].kind = "resize"
  /\ trace = <<"bind", "validate", "decode", "transform">>
  /\ request.file.kind = "image"

=============================================================================
